---- MODULE Spec2Model ----
(***************************************************************************)
(* generate-toc: exclusion rules (glob based, later rule wins), and the    *)
(* recursive directory walk that builds the tree of included files.        *)
(*                                                                         *)
(* Strings of the program are sequences of one-character strings, so that  *)
(* trim, split, join and glob matching are computed as the code computes   *)
(* them.                                                                   *)
(***************************************************************************)
EXTENDS Naturals, Sequences, FiniteSets

---------------------------------------------------------------------------
(* Strings *)

SLASH == "/"
BACKSLASH == "\\"
LF == "\n"
CR == "\r"
STARS == <<"*", "*">>

\* String.prototype.trim's white space, as far as the rule files here use it
IsSpace(c) == c \in {" ", "\t", CR, LF}

RECURSIVE TrimStart(_)
TrimStart(s) ==
    IF s /= <<>> /\ IsSpace(Head(s)) THEN TrimStart(Tail(s)) ELSE s

RECURSIVE TrimEnd(_)
TrimEnd(s) ==
    IF s /= <<>> /\ IsSpace(s[Len(s)])
    THEN TrimEnd(SubSeq(s, 1, Len(s) - 1))
    ELSE s

\* String.prototype.trim
Trim(s) == TrimEnd(TrimStart(s))

\* String.prototype.startsWith, for a one-character prefix
StartsWith(s, c) == s /= <<>> /\ Head(s) = c

\* s.split(sep) for a one-character separator: always at least one part
RECURSIVE SplitAcc(_, _, _)
SplitAcc(s, sep, cur) ==
    IF s = <<>> THEN <<cur>>
    ELSE IF Head(s) = sep THEN <<cur>> \o SplitAcc(Tail(s), sep, <<>>)
    ELSE SplitAcc(Tail(s), sep, Append(cur, Head(s)))

Split(s, sep) == SplitAcc(s, sep, <<>>)

\* parts.join(sep)
RECURSIVE Join(_, _)
Join(parts, sep) ==
    IF parts = <<>> THEN <<>>
    ELSE IF Len(parts) = 1 THEN parts[1]
    ELSE parts[1] \o <<sep>> \o Join(Tail(parts), sep)

\* text.split(/\r?\n/): split at LF, a CR right before the LF belongs to the
\* separator
StripCR(line) ==
    IF line /= <<>> /\ line[Len(line)] = CR
    THEN SubSeq(line, 1, Len(line) - 1)
    ELSE line

RECURSIVE SplitLinesAcc(_, _)
SplitLinesAcc(s, cur) ==
    IF s = <<>> THEN <<cur>>
    ELSE IF Head(s) = LF THEN <<StripCR(cur)>> \o SplitLinesAcc(Tail(s), <<>>)
    ELSE SplitLinesAcc(Tail(s), Append(cur, Head(s)))

SplitLines(text) == SplitLinesAcc(text, <<>>)

---------------------------------------------------------------------------
(* globToRegExp of @std/path (posix), options {extended, globstar}, for     *)
(* globs over literal characters, '?', '*', '**' and '/'.  A compiled       *)
(* regular expression is the sequence of its pieces between ^ and $.        *)

RxLit(c)   == [t |-> "lit", c |-> c]        \* an escaped literal character
RxDot      == [t |-> "dot", c |-> ""]       \* .          from ?
RxWild     == [t |-> "wild", c |-> ""]      \* [^/]*      from *
RxGlobstar == [t |-> "globstar", c |-> ""]  \* (?:[^/]*(?:/|$)+)*   from **
RxSep      == [t |-> "sep", c |-> ""]       \* /+   between two segments
RxSepMaybe == [t |-> "sepMaybe", c |-> ""]  \* /*   after the last segment
RxNever    == [t |-> "never", c |-> ""]     \* (?!) the empty glob

\* "Remove trailing separators": for (; newLength > 1 && glob[newLength-1] is a
\* separator; newLength--)
RECURSIVE StripTrailingSeps(_)
StripTrailingSeps(glob) ==
    IF Len(glob) > 1 /\ glob[Len(glob)] = SLASH
    THEN StripTrailingSeps(SubSeq(glob, 1, Len(glob) - 1))
    ELSE glob

\* index of the first separator at or after i, Len(glob) + 1 when there is none
RECURSIVE SegmentEnd(_, _)
SegmentEnd(glob, i) ==
    IF i > Len(glob) \/ glob[i] = SLASH THEN i ELSE SegmentEnd(glob, i + 1)

\* index of the first character at or after i that is no separator
RECURSIVE SkipSeps(_, _)
SkipSeps(glob, i) ==
    IF i <= Len(glob) /\ glob[i] = SLASH THEN SkipSeps(glob, i + 1) ELSE i

\* index of the last star of the run of stars that starts at i
RECURSIVE StarsEnd(_, _)
StarsEnd(glob, i) ==
    IF i + 1 <= Len(glob) /\ glob[i + 1] = "*" THEN StarsEnd(glob, i + 1) ELSE i

IsSepOrUndefined(glob, i) == i < 1 \/ i > Len(glob) \/ glob[i] = SLASH

\* the pieces of the segment glob[i .. e-1]
RECURSIVE SegmentPieces(_, _, _)
SegmentPieces(glob, i, e) ==
    IF i >= e THEN <<>>
    ELSE IF glob[i] = "?" THEN <<RxDot>> \o SegmentPieces(glob, i + 1, e)
    ELSE IF glob[i] = "*" THEN
        LET last == StarsEnd(glob, i)
            numStars == last - i + 1
        IN  IF /\ numStars = 2
               /\ IsSepOrUndefined(glob, i - 1)
               /\ IsSepOrUndefined(glob, last + 1)
            THEN <<RxGlobstar>> \o SegmentPieces(glob, last + 1, e)
            ELSE <<RxWild>> \o SegmentPieces(glob, last + 1, e)
    ELSE <<RxLit(glob[i])>> \o SegmentPieces(glob, i + 1, e)

\* the outer loop: one segment, then the separator piece unless the segment
\* was a globstar (endsWithSep), then the next segment
RECURSIVE GlobPieces(_, _)
GlobPieces(glob, j) ==
    IF j > Len(glob) THEN <<>>
    ELSE
        LET e == SegmentEnd(glob, j)
            segment == SegmentPieces(glob, j, e)
            endsWithSep == \E k \in 1..Len(segment) : segment[k] = RxGlobstar
            sepPiece == IF endsWithSep THEN <<>>
                        ELSE IF e <= Len(glob) THEN <<RxSep>>
                        ELSE <<RxSepMaybe>>
        IN  segment \o sepPiece \o GlobPieces(glob, SkipSeps(glob, e))

globToRegExp(glob) ==
    IF glob = <<>> THEN <<RxNever>>
    ELSE GlobPieces(StripTrailingSeps(glob), 1)

---------------------------------------------------------------------------
(* RegExp.prototype.test for such an expression: the set of positions the  *)
(* match can stand at after each piece (position i: the next character to  *)
(* read is s[i]; Len(s) + 1 is the end of the string).                      *)

\* positions after [^/]* read from i
RECURSIVE WildEnds(_, _)
WildEnds(s, i) ==
    IF i <= Len(s) /\ s[i] /= SLASH THEN {i} \cup WildEnds(s, i + 1) ELSE {i}

\* positions after /+ read from i
RECURSIVE SepEnds(_, _)
SepEnds(s, i) ==
    IF i <= Len(s) /\ s[i] = SLASH THEN {i + 1} \cup SepEnds(s, i + 1) ELSE {}

\* positions after (?:/|$)+ read from i
SepOrEndEnds(s, i) == SepEnds(s, i) \cup (IF i = Len(s) + 1 THEN {i} ELSE {})

\* positions after one round of [^/]*(?:/|$)+ read from i
GlobstarRound(s, i) == UNION {SepOrEndEnds(s, m) : m \in WildEnds(s, i)}

\* positions after (?:[^/]*(?:/|$)+)* read from i
RECURSIVE GlobstarEnds(_, _)
GlobstarEnds(s, i) ==
    {i} \cup UNION {GlobstarEnds(s, k) : k \in {m \in GlobstarRound(s, i) : m > i}}

PieceEnds(piece, s, i) ==
    CASE piece.t = "lit" -> IF i <= Len(s) /\ s[i] = piece.c THEN {i + 1} ELSE {}
      [] piece.t = "dot" -> IF i <= Len(s) /\ s[i] \notin {LF, CR} THEN {i + 1} ELSE {}
      [] piece.t = "wild" -> WildEnds(s, i)
      [] piece.t = "globstar" -> GlobstarEnds(s, i)
      [] piece.t = "sep" -> SepEnds(s, i)
      [] piece.t = "sepMaybe" -> {i} \cup SepEnds(s, i)
      [] OTHER -> {}

RECURSIVE RxEnds(_, _, _, _)
RxEnds(rx, k, s, positions) ==
    IF k > Len(rx) \/ positions = {} THEN positions
    ELSE RxEnds(rx, k + 1, s, UNION {PieceEnds(rx[k], s, i) : i \in positions})

\* rx.test(s), rx anchored by ^ and $
RxTest(rx, s) == (Len(s) + 1) \in RxEnds(rx, 1, s, {1})

---------------------------------------------------------------------------
(* Exclude rules *)

\* a rule file on disk: it is missing, or it exists and cannot be read
\* ("unreadable"), or it can be read ("ok"); its text is its lines with the
\* line end eol between them
MissingFile == [status |-> "missing", lines |-> <<>>, eol |-> <<LF>>]

RECURSIVE JoinLines(_, _)
JoinLines(lines, eol) ==
    IF lines = <<>> THEN <<>>
    ELSE IF Len(lines) = 1 THEN lines[1]
    ELSE lines[1] \o eol \o JoinLines(Tail(lines), eol)

\* what Deno.readTextFileSync returns when it does not throw
readTextFileSync(file) == JoinLines(file.lines, file.eol)

\* readLinesIfExists: the text split into lines; [] whenever the read throws
readLinesIfExists(file) ==
    IF file.status = "ok" THEN SplitLines(readTextFileSync(file)) ELSE <<>>

\* pushRules with the test and the push on the line as read, not trimmed
RECURSIVE pushRulesUntrimmed(_, _)
pushRulesUntrimmed(rules, lines) ==
    IF lines = <<>> THEN rules
    ELSE LET s == Head(lines)
         IN  IF s = <<>> \/ StartsWith(s, "#")
             THEN pushRulesUntrimmed(rules, Tail(lines))
             ELSE pushRulesUntrimmed(Append(rules, s), Tail(lines))

\* the loop over the lines of one file: trim, drop blank lines and comments,
\* push the rest
RECURSIVE pushRules(_, _)
pushRules(rules, lines) ==
    IF lines = <<>> THEN rules
    ELSE LET s == Trim(Head(lines))
         IN  IF s = <<>> \/ StartsWith(s, "#")
             THEN pushRules(rules, Tail(lines))
             ELSE pushRules(Append(rules, s), Tail(lines))

\* rules.map(...): one compiled rule per raw rule
compileRule(rule) ==
    LET neg == StartsWith(rule, "!")
        pattern == IF neg THEN Tail(rule) ELSE rule
    IN  [neg |-> neg, rx |-> globToRegExp(pattern), raw |-> rule]

\* loadExcludeRules({noGlobal, rootDir}); homeSet: HOME or USERPROFILE is set,
\* so that globalPath is not ""
loadExcludeRules(noGlobalOpt, homeSet, gFile, lFile) ==
    LET fromGlobal == IF ~noGlobalOpt /\ homeSet
                      THEN pushRules(<<>>, readLinesIfExists(gFile))
                      ELSE <<>>
        rules == pushRules(fromGlobal, readLinesIfExists(lFile))
    IN  [i \in 1..Len(rules) |-> compileRule(rules[i])]

\* expandGlobRule: the directory shorthand, four expressions for a pattern
\* that ends with '/'.  loadExcludeRules does not call it.
expandGlobRule(rule) ==
    LET neg == StartsWith(rule, "!")
        rawPat == IF neg THEN Tail(rule) ELSE rule
        pat == Trim(rawPat)
        dir == pat
        dirNoSlash == SubSeq(pat, 1, Len(pat) - 1)
    IN  IF pat /= <<>> /\ pat[Len(pat)] = SLASH
        THEN << [neg |-> neg, rx |-> globToRegExp(STARS \o <<SLASH>> \o dir \o STARS), raw |-> rule],
                [neg |-> neg, rx |-> globToRegExp(dir \o STARS), raw |-> rule],
                [neg |-> neg, rx |-> globToRegExp(STARS \o <<SLASH>> \o dirNoSlash), raw |-> rule],
                [neg |-> neg, rx |-> globToRegExp(dirNoSlash), raw |-> rule] >>
        ELSE << [neg |-> neg, rx |-> globToRegExp(pat), raw |-> rule] >>

\* relPath.split("\\").join("/")
normalizeSeparators(relPath) == Join(Split(relPath, BACKSLASH), SLASH)

\* the loop of isIncluded from rule i on, include being the verdict so far
RECURSIVE includeFrom(_, _, _, _)
includeFrom(p, rules, i, include) ==
    IF i > Len(rules) THEN include
    ELSE includeFrom(p, rules, i + 1,
                     IF RxTest(rules[i].rx, p) THEN rules[i].neg ELSE include)

\* isIncluded that stops at the first rule that matches
RECURSIVE includeFirstMatch(_, _, _)
includeFirstMatch(p, rules, i) ==
    IF i > Len(rules) THEN TRUE
    ELSE IF RxTest(rules[i].rx, p) THEN rules[i].neg
    ELSE includeFirstMatch(p, rules, i + 1)

isIncludedFirstMatch(relPath, rules) ==
    includeFirstMatch(normalizeSeparators(relPath), rules, 1)

\* isIncluded whose verdict a rule that does not match sets back to true
RECURSIVE includeReset(_, _, _, _)
includeReset(p, rules, i, include) ==
    IF i > Len(rules) THEN include
    ELSE includeReset(p, rules, i + 1,
                      IF RxTest(rules[i].rx, p) THEN rules[i].neg ELSE TRUE)

isIncludedReset(relPath, rules) ==
    includeReset(normalizeSeparators(relPath), rules, 1, TRUE)

\* isIncluded(relPath, compiledRules)
isIncluded(relPath, rules) ==
    includeFrom(normalizeSeparators(relPath), rules, 1, TRUE)

---------------------------------------------------------------------------
(* Tree building *)

EmptyMap == [k \in {} |-> k]

MapSet(m, key, value) ==
    [k \in DOMAIN m \cup {key} |-> IF k = key THEN value ELSE m[k]]

\* createNode that leaves the name out
createNodeUnnamed(name) == [name |-> <<>>, children |-> EmptyMap, files |-> <<>>]

createNode(name) == [name |-> name, children |-> EmptyMap, files |-> <<>>]

\* insertPath without the return after files.push: the last part is pushed
\* and then taken for a directory too
RECURSIVE insertPathNoReturn(_, _)
insertPathNoReturn(root, pathParts) ==
    IF Len(pathParts) = 0 THEN root
    ELSE LET pushed == IF Len(pathParts) = 1
                       THEN [root EXCEPT !.files = Append(@, pathParts[1])]
                       ELSE root
             dir == Head(pathParts)
             rest == Tail(pathParts)
             child == IF dir \in DOMAIN pushed.children
                      THEN pushed.children[dir]
                      ELSE createNode(dir)
         IN  [pushed EXCEPT
                 !.children = MapSet(@, dir, insertPathNoReturn(child, rest))]

RECURSIVE insertPath(_, _)
insertPath(root, pathParts) ==
    IF Len(pathParts) = 0 THEN root
    ELSE IF Len(pathParts) = 1
    THEN [root EXCEPT !.files = Append(@, pathParts[1])]
    ELSE LET dir == Head(pathParts)
             rest == Tail(pathParts)
             child == IF dir \in DOMAIN root.children
                      THEN root.children[dir]
                      ELSE createNode(dir)
         IN  [root EXCEPT !.children = MapSet(@, dir, insertPath(child, rest))]

\* posix.join(relDir, name) for a relDir that is not "" and a plain entry name
posixJoin(relDir, name) == relDir \o <<SLASH>> \o name

\* rel of walkDir
relOf(relDir, name) == IF relDir /= <<>> THEN posixJoin(relDir, name) ELSE name

---------------------------------------------------------------------------
(* The inputs of a run: names, rule lines, rule files, directory trees *)

n_a         == <<"a">>
n_build     == <<"b", "u", "i", "l", "d">>
n_keep      == <<"k", "e", "e", "p", ".", "t", "x", "t">>
n_out       == <<"o", "u", "t", ".", "t", "x", "t">>
n_x         == <<"x", ".", "t", "x", "t">>
n_notes     == <<"n", "o", "t", "e", "s", ".", "t", "x", "t">>
n_debug     == <<"d", "e", "b", "u", "g", ".", "l", "o", "g">>
n_important == <<"i", "m", "p", "o", "r", "t", "a", "n", "t", ".", "l", "o", "g">>

r_buildDir     == n_build \o <<SLASH>>                          \* build/
r_notKeep      == <<"!">> \o n_build \o <<SLASH>> \o n_keep     \* !build/keep.txt
r_log          == <<"*", ".", "l", "o", "g">>                   \* *.log
r_notImportant == <<"!">> \o n_important                        \* !important.log
r_comment      == <<"#", " ", "n", "o", "t", "e">>              \* # note
r_blank        == <<>>
r_padded       == <<" ", "\t">> \o r_log \o <<" ">>             \* *.log in white space
r_buildAll     == n_build \o <<SLASH>> \o STARS                 \* build/**
r_all          == STARS                                         \* **
r_nested       == n_a \o <<SLASH>> \o n_build                   \* a/build
r_notNestedOut == <<"!">> \o n_a \o <<SLASH>> \o n_build \o <<SLASH>> \o n_out
r_anyTxt       == STARS \o <<SLASH, "*", ".", "t", "x", "t">>   \* **/*.txt

\* the longest rule file of the rule engine's specification, in lines
MaxLines == 2

\* the most entries a scanned directory tree holds
MaxEntries == 5

TextFile(lines, eol) == [status |-> "ok", lines |-> lines, eol |-> eol]
UnreadableFile(lines) == [status |-> "unreadable", lines |-> lines, eol |-> <<LF>>]

RuleLines == {r_buildDir, r_notKeep, r_log, r_notImportant, r_comment,
              r_blank, r_padded}

RECURSIVE SeqsUpTo(_, _)
SeqsUpTo(S, n) ==
    IF n = 0 THEN {<<>>}
    ELSE LET shorter == SeqsUpTo(S, n - 1)
         IN  shorter \cup {Append(q, x) : q \in shorter, x \in S}

LocalLineLists == SeqsUpTo(RuleLines, MaxLines)
GlobalLineLists == {<<>>, <<r_log>>, <<r_comment, r_buildDir, r_blank>>}

LocalFiles ==
    {MissingFile, UnreadableFile(<<r_buildDir>>)}
    \cup {TextFile(lines, <<LF>>) : lines \in LocalLineLists}
    \* the files of two lines also with CR LF between them
    \cup {TextFile(lines, <<CR, LF>>) : lines \in {q \in LocalLineLists : Len(q) = 2}}

GlobalFiles ==
    {MissingFile, UnreadableFile(<<r_all>>)}
    \cup {TextFile(lines, <<LF>>) : lines \in GlobalLineLists}

\* the paths the rule engine is asked about
p_build     == n_build
p_buildOut  == n_build \o <<SLASH>> \o n_out
p_buildKeep == n_build \o <<SLASH>> \o n_keep
p_aBuild    == n_a \o <<SLASH>> \o n_build
p_aBuildOut == n_a \o <<SLASH>> \o n_build \o <<SLASH>> \o n_out
p_aBuildWin == n_a \o <<BACKSLASH>> \o n_build                 \* a\build

QueryPaths == {p_build, p_buildOut, p_buildKeep, p_aBuild, p_aBuildOut,
               p_aBuildWin, n_debug, n_important, n_notes}

\* the entries a scanned tree may hold, each a path of names from the scan
\* root, with the kinds it may have
Candidates == {<<n_build>>, <<n_build, n_keep>>, <<n_a>>, <<n_a, n_build>>,
               <<n_a, n_build, n_out>>, <<n_a, n_x>>, <<n_notes>>, <<n_debug>>}

KindsOf(path) ==
    CASE path \in {<<n_a>>} -> {"dir", "symlink"}
      [] path \in {<<n_build>>, <<n_a, n_build>>} -> {"dir"}
      [] path \in {<<n_debug>>} -> {"file", "symlink"}
      [] OTHER -> {"file"}

Parent(path) == SubSeq(path, 1, Len(path) - 1)

\* a directory tree: the kind of every candidate, "absent" when it is not
\* there; an entry lives in a directory
IsFs(f) ==
    /\ \A path \in Candidates :
          /\ f[path] \in KindsOf(path) \cup {"absent"}
          /\ (f[path] /= "absent" /\ Len(path) > 1) => f[Parent(path)] = "dir"
    /\ Cardinality({path \in Candidates : f[path] /= "absent"}) <= MaxEntries

FsChoices == {f \in [Candidates -> {"absent", "file", "dir", "symlink"}] : IsFs(f)}

EmptyFs == [path \in Candidates |-> "absent"]

\* the directories of a tree, the scan root <<>> among them
DirsOf(f) == {<<>>} \cup {path \in Candidates : f[path] = "dir"}

\* Deno.readDir: the names of the entries of a directory
entriesOf(f, dir) ==
    {path[Len(path)] : path \in {q \in Candidates :
                                    f[q] /= "absent" /\ Parent(q) = dir}}

\* the option, the rule files and HOME of the runs that scan a tree
RunConfigs == {
    [noGlobal |-> FALSE, home |-> TRUE, g |-> MissingFile, l |-> MissingFile],
    [noGlobal |-> FALSE, home |-> TRUE, g |-> MissingFile,
     l |-> TextFile(<<r_buildDir, r_notKeep>>, <<LF>>)],
    [noGlobal |-> FALSE, home |-> TRUE, g |-> TextFile(<<r_log>>, <<LF>>),
     l |-> TextFile(<<r_comment, r_buildAll, r_blank>>, <<CR, LF>>)],
    [noGlobal |-> FALSE, home |-> TRUE, g |-> TextFile(<<r_log>>, <<LF>>),
     l |-> TextFile(<<r_buildDir, r_notKeep>>, <<LF>>)],
    [noGlobal |-> TRUE, home |-> TRUE, g |-> TextFile(<<r_all>>, <<LF>>),
     l |-> TextFile(<<r_nested, r_notNestedOut>>, <<LF>>)],
    [noGlobal |-> FALSE, home |-> FALSE, g |-> MissingFile,
     l |-> TextFile(<<r_anyTxt>>, <<LF>>)],
    [noGlobal |-> FALSE, home |-> TRUE, g |-> MissingFile,
     l |-> UnreadableFile(<<r_all>>)] }

---------------------------------------------------------------------------
(* The run: main *)

VARIABLES
    noGlobal,       \* argv.noGlobal
    home,           \* HOME or USERPROFILE is set
    globalFile,     \* ~/.generate-toc-exclude
    localFile,      \* <root>/.generate-toc-exclude
    fs,             \* the directory tree under the scan root
    unreadable,     \* the directories whose read fails
    compiledRules,  \* the rule set of the run
    tree,           \* root of buildTree
    stack,          \* the walkDir calls in progress, innermost last
    readLog,        \* the directories Deno.readDir was called on, in order
    written,        \* table-of-contents.html was written
    queryPath,      \* the path of the last isIncluded call of the rule engine
    verdict,        \* and what it returned
    pc

vars == <<noGlobal, home, globalFile, localFile, fs, unreadable, compiledRules,
          tree, stack, readLog, written, queryPath, verdict, pc>>

inputs == <<noGlobal, home, globalFile, localFile, fs, unreadable>>

InitCommon ==
    /\ compiledRules = <<>>
    /\ tree = createNode(<<>>)
    /\ stack = <<>>
    /\ readLog = <<>>
    /\ written = FALSE
    /\ queryPath = <<>>
    /\ verdict = TRUE
    /\ pc = "main"

\* a run over a directory tree
Init ==
    /\ \E cfg \in RunConfigs :
          /\ noGlobal = cfg.noGlobal
          /\ home = cfg.home
          /\ globalFile = cfg.g
          /\ localFile = cfg.l
    /\ fs \in FsChoices
    /\ unreadable \in {u \in SUBSET DirsOf(fs) : Cardinality(u) <= 1}
    /\ InitCommon

\* main: const compiledRules = loadExcludeRules({noGlobal, rootDir})
LoadExcludeRules ==
    /\ pc = "main"
    /\ compiledRules' = loadExcludeRules(noGlobal, home, globalFile, localFile)
    /\ pc' = "buildTree"
    /\ UNCHANGED <<inputs, tree, stack, readLog, written, queryPath, verdict>>

Frame(abs, rel) == [abs |-> abs, rel |-> rel, todo |-> {}, opened |-> FALSE]

Top == stack[Len(stack)]

Pop == SubSeq(stack, 1, Len(stack) - 1)

SetTop(frame) == [stack EXCEPT ![Len(stack)] = frame]

\* buildTree: const root = createNode(""); walkDir(rootDir, "") is called
BuildTree ==
    /\ pc = "buildTree"
    /\ tree' = createNode(<<>>)
    /\ stack' = <<Frame(<<>>, <<>>)>>
    /\ pc' = "walk"
    /\ UNCHANGED <<inputs, compiledRules, readLog, written, queryPath, verdict>>

\* walkDir: Deno.readDir(absDir) starts to yield the entries of the directory
ReadDirOk ==
    /\ pc = "walk"
    /\ stack /= <<>>
    /\ ~Top.opened
    /\ Top.abs \notin unreadable
    /\ readLog' = Append(readLog, Top.abs)
    /\ stack' = SetTop([Top EXCEPT !.opened = TRUE,
                                   !.todo = entriesOf(fs, Top.abs)])
    /\ UNCHANGED <<inputs, compiledRules, tree, written, queryPath, verdict, pc>>

\* walkDir with the failure of Deno.readDir caught and the directory taken
\* for an empty one
ReadDirSwallowed ==
    /\ pc = "walk"
    /\ stack /= <<>>
    /\ ~Top.opened
    /\ Top.abs \in unreadable
    /\ readLog' = Append(readLog, Top.abs)
    /\ stack' = SetTop([Top EXCEPT !.opened = TRUE])
    /\ UNCHANGED <<inputs, compiledRules, tree, written, queryPath, verdict, pc>>

\* walkDir: Deno.readDir(absDir) throws; nothing catches it, so every walkDir
\* in progress, buildTree and main end with it
ReadDirFails ==
    /\ pc = "walk"
    /\ stack /= <<>>
    /\ ~Top.opened
    /\ Top.abs \in unreadable
    /\ readLog' = Append(readLog, Top.abs)
    /\ stack' = <<>>
    /\ pc' = "failed"
    /\ UNCHANGED <<inputs, compiledRules, tree, written, queryPath, verdict>>

\* the loop of walkDir is running; the entry it is at is any entry not yet
\* yielded (the order of Deno.readDir is the file system's)
Walking == pc = "walk" /\ stack /= <<>> /\ Top.opened

Yielded(name) == [Top EXCEPT !.todo = @ \ {name}]

\* if (!isIncluded(rel, compiledRules)) continue
SkipExcluded ==
    /\ Walking
    /\ \E name \in Top.todo :
        /\ ~isIncluded(relOf(Top.rel, name), compiledRules)
        /\ stack' = SetTop(Yielded(name))
        /\ UNCHANGED <<inputs, compiledRules, tree, readLog, written, queryPath,
                       verdict, pc>>

\* walkDir that recurses into a directory before it asks isIncluded
DescendDirUnchecked ==
    /\ Walking
    /\ \E name \in Top.todo :
        /\ fs[Append(Top.abs, name)] = "dir"
        /\ stack' = Append(SetTop(Yielded(name)),
                           Frame(Append(Top.abs, name), relOf(Top.rel, name)))
        /\ UNCHANGED <<inputs, compiledRules, tree, readLog, written, queryPath,
                       verdict, pc>>

\* if (entry.isDirectory) await walkDir(abs, rel)
DescendDir ==
    /\ Walking
    /\ \E name \in Top.todo :
        /\ isIncluded(relOf(Top.rel, name), compiledRules)
        /\ fs[Append(Top.abs, name)] = "dir"
        /\ stack' = Append(SetTop(Yielded(name)),
                           Frame(Append(Top.abs, name), relOf(Top.rel, name)))
        /\ UNCHANGED <<inputs, compiledRules, tree, readLog, written, queryPath,
                       verdict, pc>>

\* else if (entry.isFile) insertPath(root, rel.split("/"))
InsertFile ==
    /\ Walking
    /\ \E name \in Top.todo :
        /\ isIncluded(relOf(Top.rel, name), compiledRules)
        /\ fs[Append(Top.abs, name)] = "file"
        /\ tree' = insertPath(tree, Split(relOf(Top.rel, name), SLASH))
        /\ stack' = SetTop(Yielded(name))
        /\ UNCHANGED <<inputs, compiledRules, readLog, written, queryPath,
                       verdict, pc>>

\* walkDir with a plain else: whatever is no directory is inserted
InsertSymlink ==
    /\ Walking
    /\ \E name \in Top.todo :
        /\ isIncluded(relOf(Top.rel, name), compiledRules)
        /\ fs[Append(Top.abs, name)] \notin {"dir", "file"}
        /\ tree' = insertPath(tree, Split(relOf(Top.rel, name), SLASH))
        /\ stack' = SetTop(Yielded(name))
        /\ UNCHANGED <<inputs, compiledRules, readLog, written, queryPath,
                       verdict, pc>>

\* (symlinks are ignored): neither isDirectory nor isFile
IgnoreSymlink ==
    /\ Walking
    /\ \E name \in Top.todo :
        /\ isIncluded(relOf(Top.rel, name), compiledRules)
        /\ fs[Append(Top.abs, name)] \notin {"dir", "file"}
        /\ stack' = SetTop(Yielded(name))
        /\ UNCHANGED <<inputs, compiledRules, tree, readLog, written, queryPath,
                       verdict, pc>>

\* the loop of walkDir is over: the call returns; the outermost one returns to
\* buildTree, which returns root to main
ReturnFromDir ==
    /\ pc = "walk"
    /\ stack /= <<>>
    /\ Top.opened
    /\ Top.todo = {}
    /\ stack' = Pop
    /\ pc' = IF Len(stack) = 1 THEN "render" ELSE "walk"
    /\ UNCHANGED <<inputs, compiledRules, tree, readLog, written, queryPath,
                   verdict>>

\* main: renderNode, wrapPage, Deno.writeTextFile("table-of-contents.html")
WriteOutput ==
    /\ pc = "render"
    /\ written' = TRUE
    /\ pc' = "done"
    /\ UNCHANGED <<inputs, compiledRules, tree, stack, readLog, queryPath,
                   verdict>>

Next ==
    \/ LoadExcludeRules
    \/ BuildTree
    \/ ReadDirOk
    \/ ReadDirFails
    \/ SkipExcluded
    \/ DescendDir
    \/ InsertFile
    \/ IgnoreSymlink
    \/ ReturnFromDir
    \/ WriteOutput

Spec == Init /\ [][Next]_vars

---------------------------------------------------------------------------
(* The rule engine alone: the rule files are loaded, then isIncluded is     *)
(* asked about paths.                                                       *)

InitRules ==
    /\ noGlobal \in BOOLEAN
    /\ home \in BOOLEAN
    /\ globalFile \in GlobalFiles
    /\ localFile \in LocalFiles
    \* without HOME and USERPROFILE there is no global rule file
    /\ ~home => (globalFile = MissingFile /\ ~noGlobal)
    /\ fs = EmptyFs
    /\ unreadable = {}
    /\ InitCommon

\* isIncluded(relPath, compiledRules) for any path
IsIncluded ==
    /\ pc \in {"buildTree", "decided"}
    /\ \E relPath \in QueryPaths :
          /\ queryPath' = relPath
          /\ verdict' = isIncluded(relPath, compiledRules)
    /\ pc' = "decided"
    /\ UNCHANGED <<inputs, compiledRules, tree, stack, readLog, written>>

NextRules ==
    \/ LoadExcludeRules
    \/ IsIncluded

SpecRules == InitRules /\ [][NextRules]_vars

---------------------------------------------------------------------------
(* Properties of the rule engine (SpecRules) *)

RawRules(rules) == [i \in 1..Len(rules) |-> rules[i].raw]

\* the rules that match a path, by their place in the rule set
MatchingRules(relPath, rules) ==
    {i \in 1..Len(rules) : RxTest(rules[i].rx, normalizeSeparators(relPath))}

Last(S) == CHOOSE i \in S : \A k \in S : k <= i

ShorthandPaths == {p_build, p_buildOut, p_aBuild, p_aBuildOut}

\* C2: with the one rule "build/" in the rule set of the run, isIncluded is
\* false for build, build/out.txt, a/build and a/build/out.txt.
C2_DirShorthandExcludes ==
    (/\ pc = "decided"
     /\ RawRules(compiledRules) = <<r_buildDir>>
     /\ queryPath \in ShorthandPaths)
    => verdict = FALSE

\* what C2 asks for holds of the four expressions of expandGlobRule, which
\* the run does not use: each of the four paths is matched by one of them
ExpandGlobRuleCoversShorthand ==
    \A relPath \in ShorthandPaths :
        MatchingRules(relPath, expandGlobRule(r_buildDir)) /= {}

\* C3: the verdict of isIncluded is true when no rule matches the path, and
\* otherwise the negated flag of the last rule that matches it; with
\* ["*.log", "!important.log"], of debug.log, important.log and notes.txt
\* exactly important.log and notes.txt are included.
C3_LastMatchingRuleWins ==
    pc = "decided" =>
        /\ LET matching == MatchingRules(queryPath, compiledRules)
           IN  verdict = IF matching = {} THEN TRUE
                         ELSE compiledRules[Last(matching)].neg
        /\ (/\ RawRules(compiledRules) = <<r_log, r_notImportant>>
            /\ queryPath \in {n_debug, n_important, n_notes})
           => (verdict <=> queryPath \in {n_important, n_notes})

C3_Witness ==
    /\ pc = "decided"
    /\ RawRules(compiledRules) = <<r_log, r_notImportant>>
    /\ queryPath = n_important
    /\ MatchingRules(queryPath, compiledRules) = {1, 2}
    /\ verdict = TRUE

\* the rules a rule file can add to a rule set
AppendableRules == {Trim(line) : line \in RuleLines \ {r_blank, r_comment}}

RuleMatches(rule, relPath) ==
    RxTest(compileRule(rule).rx, normalizeSeparators(relPath))

\* C4: a rule appended to the rule set leaves the verdict of every path it
\* does not match as it was.
C4_MonotonicOverride ==
    pc = "decided" =>
        \A rule \in AppendableRules :
            ~RuleMatches(rule, queryPath)
            => isIncluded(queryPath, Append(compiledRules, compileRule(rule)))
               = verdict

\* an excluded path, a rule that does not match it and one that does and
\* changes its verdict
C4_Witness ==
    /\ pc = "decided"
    /\ compiledRules /= <<>>
    /\ verdict = FALSE
    /\ \E rule \in AppendableRules : ~RuleMatches(rule, queryPath)
    /\ \E rule \in AppendableRules :
          /\ RuleMatches(rule, queryPath)
          /\ isIncluded(queryPath, Append(compiledRules, compileRule(rule)))

\* the trimmed lines that are neither blank nor comments, in order
IsRuleLine(s) == s /= <<>> /\ Head(s) /= "#"

KeptLines(lines) ==
    SelectSeq([i \in 1..Len(lines) |-> Trim(lines[i])], IsRuleLine)

IsNoise(line) == ~IsRuleLine(Trim(line))

WithoutNoise(file) ==
    [file EXCEPT !.lines = SelectSeq(file.lines, LAMBDA line : ~IsNoise(line))]

\* C7: the rule set is the kept lines of the global rule file in file order,
\* then those of the local rule file; only the local ones with --no-global;
\* a missing file adds nothing; with or without their comment lines and
\* blank lines the rule files give the same rule set. (Files that exist and
\* cannot be read are the subject of C9.)
C7_RuleSetAssembly ==
    (/\ pc /= "main"
     /\ globalFile.status /= "unreadable"
     /\ localFile.status /= "unreadable")
    => /\ RawRules(compiledRules)
            = (IF noGlobal THEN <<>> ELSE KeptLines(globalFile.lines))
              \o KeptLines(localFile.lines)
       /\ compiledRules = [i \in 1..Len(compiledRules) |->
                             compileRule(RawRules(compiledRules)[i])]
       /\ compiledRules = loadExcludeRules(noGlobal, home,
                                           WithoutNoise(globalFile),
                                           WithoutNoise(localFile))

C7_Witness ==
    /\ pc /= "main"
    /\ ~noGlobal
    /\ globalFile = TextFile(<<r_comment, r_buildDir, r_blank>>, <<LF>>)
    /\ localFile = TextFile(<<r_padded, r_comment>>, <<CR, LF>>)
    /\ RawRules(compiledRules) = <<r_buildDir, r_log>>

---------------------------------------------------------------------------
(* Properties of the run (Spec) *)

\* the relative path string of an entry
RelString(path) == Join(path, SLASH)

IsPrefix(a, b) == Len(a) <= Len(b) /\ SubSeq(b, 1, Len(a)) = a

Range(q) == {q[i] : i \in 1..Len(q)}

NoDuplicates(q) == \A i, j \in 1..Len(q) : q[i] = q[j] => i = j

\* the files of a tree, each as its path of names from the root
RECURSIVE FilePathsUnder(_, _)
FilePathsUnder(node, prefix) ==
    {Append(prefix, node.files[i]) : i \in 1..Len(node.files)}
    \cup UNION {FilePathsUnder(node.children[k], Append(prefix, k)) :
                   k \in DOMAIN node.children}

\* the directory nodes of a tree other than the root, each as its path
RECURSIVE NodePathsUnder(_, _)
NodePathsUnder(node, prefix) ==
    {Append(prefix, k) : k \in DOMAIN node.children}
    \cup UNION {NodePathsUnder(node.children[k], Append(prefix, k)) :
                   k \in DOMAIN node.children}

TreeFiles == FilePathsUnder(tree, <<>>)
TreeNodes == NodePathsUnder(tree, <<>>)

Included(path) == isIncluded(RelString(path), compiledRules)

\* an entry with every directory above it and itself included
Reachable(path) == \A k \in 1..Len(path) : Included(SubSeq(path, 1, k))

ExcludedDirs == {d \in Candidates : fs[d] = "dir" /\ ~Included(d)}

\* C1: a directory for which isIncluded is false is never read, and no path
\* beneath it is in the tree or being walked, whatever a later negated rule
\* says of that path.
C1_Pruning ==
    \A d \in ExcludedDirs :
        /\ \A q \in Range(readLog) : ~IsPrefix(d, q)
        /\ \A i \in 1..Len(stack) : ~IsPrefix(d, stack[i].abs)
        /\ \A q \in TreeFiles \cup TreeNodes : ~IsPrefix(d, q)

\* rules ["build/", "!build/keep.txt"], a file build/keep.txt that the second
\* rule alone would include, and the finished tree
C1_Witness ==
    /\ pc = "done"
    /\ RawRules(compiledRules) = <<r_buildDir, r_notKeep>>
    /\ fs[<<n_build, n_keep>>] = "file"
    /\ <<n_build>> \in ExcludedDirs
    /\ Included(<<n_build, n_keep>>)
    /\ <<n_build, n_keep>> \notin TreeFiles
    /\ TreeFiles /= {}

ExpectedFiles == {path \in Candidates : fs[path] = "file" /\ Reachable(path)}

Symlinks == {path \in Candidates : fs[path] = "symlink"}

\* C5: the files of the returned tree are exactly the regular files that are
\* included and lie under included directories only; during the walk the
\* tree holds no other path; a symbolic link is never read as a directory
\* and never in the tree.
C5_ExactlyReachableIncludedFiles ==
    /\ TreeFiles \subseteq ExpectedFiles
    /\ pc \in {"render", "done"} => TreeFiles = ExpectedFiles
    /\ \A link \in Symlinks :
          /\ link \notin Range(readLog)
          /\ link \notin TreeFiles \cup TreeNodes

\* a finished tree with a file in it, a symbolic link no rule excludes, a
\* file excluded by its own path and a file under an excluded directory
C5_Witness ==
    /\ pc = "done"
    /\ TreeFiles /= {}
    /\ \E link \in Symlinks : Included(link)
    /\ \E path \in Candidates :
          fs[path] = "file" /\ ~Included(path) /\ Reachable(Parent(path))
    /\ \E path \in Candidates :
          fs[path] = "file" /\ Included(path) /\ ~Reachable(Parent(path))

RECURSIVE NoEmptyNodeUnder(_)
NoEmptyNodeUnder(node) ==
    \A k \in DOMAIN node.children :
        /\ FilePathsUnder(node.children[k], <<>>) /= {}
        /\ NoEmptyNodeUnder(node.children[k])

\* the directories that hold no file of the tree's at any depth
BarrenDirs ==
    {d \in Candidates :
        fs[d] = "dir" /\ \A path \in ExpectedFiles : ~IsPrefix(d, path)}

\* C6: at every step of the walk every node but the root has a file in its
\* subtree; a directory with no included file beneath it has no node in the
\* returned tree.
C6_NoEmptyNodes ==
    /\ NoEmptyNodeUnder(tree)
    /\ pc \in {"render", "done"} => \A d \in BarrenDirs : d \notin TreeNodes

\* a finished tree with a node in it, and a directory that was walked and
\* holds only excluded files
C6_Witness ==
    /\ pc = "done"
    /\ TreeNodes /= {}
    /\ \E d \in BarrenDirs :
          /\ d \in Range(readLog)
          /\ entriesOf(fs, d) /= {}
          /\ \A name \in entriesOf(fs, d) : fs[Append(d, name)] = "file"

ReachableDirs == {d \in DirsOf(fs) : Reachable(d)}

\* C8: the output is written only when the walk is over and has read every
\* included directory under included directories; a read that fails ends
\* the run with nothing written; no directory is read twice.
C8_AllOrNothing ==
    /\ written =>
          /\ pc = "done"
          /\ stack = <<>>
          /\ Range(readLog) = ReachableDirs
          /\ Range(readLog) \cap unreadable = {}
    /\ Range(readLog) \cap unreadable /= {} => pc = "failed"
    /\ pc = "failed" => ~written /\ readLog[Len(readLog)] \in unreadable
    /\ NoDuplicates(readLog)

\* a run that failed at a directory after files were put in the tree
C8_Witness ==
    /\ pc = "failed"
    /\ TreeFiles /= {}
    /\ Len(readLog) > 1
    /\ ~written

\* C9: a rule file that exists and cannot be read aborts the run.
C9_UnreadableRuleFileAborts ==
    (/\ pc /= "main"
     /\ \/ localFile.status = "unreadable"
        \/ (~noGlobal /\ home /\ globalFile.status = "unreadable"))
    => pc = "failed"

RECURSIVE UniqueUnder(_)
UniqueUnder(node) ==
    /\ NoDuplicates(node.files)
    /\ \A k \in DOMAIN node.children :
          /\ node.children[k].name = k
          /\ UniqueUnder(node.children[k])

\* C10: at every step of the walk no node holds a file name twice and every
\* child node is kept under its own name.
C10_Uniqueness ==
    /\ tree.name = <<>>
    /\ UniqueUnder(tree)

\* a tree with two files in one node and files in a child node
C10_Witness ==
    /\ Len(tree.files) >= 2
    /\ \E k \in DOMAIN tree.children : tree.children[k].files /= <<>>

====
